---- MODULE Spec2Model ----
(***************************************************************************)
(* ScheduleBuilder (schedule_builder.py): a time axis, a registry of       *)
(* hierarchically named groups, and the table built from both.             *)
(*                                                                         *)
(* Text is modelled as a sequence of one-character strings, so that        *)
(* splitting, trimming, formatting and comparison are computed the way     *)
(* the Python code computes them.  The empty text is << >>.  Python's      *)
(* None is << >> where an optional text is wrapped (Some(s) = << s >>).    *)
(* Callers are taken to pass a fresh dict / list on every call.            *)
(***************************************************************************)
EXTENDS Integers, Sequences, FiniteSets, TLC

(***************************************************************************)
(* Bounds of the model.                                                    *)
(***************************************************************************)
MaxGroups == 2
MaxSpanGroups == 3

(***************************************************************************)
(* Text helpers.                                                           *)
(***************************************************************************)
Sep == <<" ", "-", " ">>

\* Code point of a character, as Python's str comparison uses it.
Ord(c) ==
    CASE c = "\t" -> 9
      [] c = "\n" -> 10
      [] c = "\f" -> 12
      [] c = "\r" -> 13
      [] c = "" -> 11
      [] c = "" -> 28
      [] c = "" -> 29
      [] c = "" -> 30
      [] c = "" -> 31
      [] c = " " -> 32
      [] c = "" -> 133
      [] c = " " -> 160
      [] c = " " -> 5760
      [] c = "-" -> 45
      [] c = "A" -> 65
      [] c = "B" -> 66
      [] c = "C" -> 67
      [] c = "D" -> 68

\* a < b for two str values.
RECURSIVE StrLess(_, _)
StrLess(a, b) ==
    IF b = <<>> THEN FALSE
    ELSE IF a = <<>> THEN TRUE
    ELSE IF Ord(Head(a)) # Ord(Head(b)) THEN Ord(Head(a)) < Ord(Head(b))
    ELSE StrLess(Tail(a), Tail(b))

\* a < b for two tuples of str.
RECURSIVE TupleLess(_, _)
TupleLess(a, b) ==
    IF b = <<>> THEN FALSE
    ELSE IF a = <<>> THEN TRUE
    ELSE IF Head(a) # Head(b) THEN StrLess(Head(a), Head(b))
    ELSE TupleLess(Tail(a), Tail(b))

\* The characters str.strip() removes: those for which str.isspace() holds.
\* In order: space, tab, line feed, carriage return, form feed, and, written
\* as the characters themselves, U+000B, U+001C, U+001D, U+001E, U+001F,
\* U+0085, U+00A0 and U+1680.  The remaining ones (U+2000 to U+200A, U+2028,
\* U+2029, U+202F, U+205F, U+3000) cannot be written in a string here, so
\* no text of the model contains them.
Whitespace ==
    {" ", "\t", "\n", "\r", "\f",
     "", "", "", "", "", "", " ", " "}

\* s.strip(): leading and trailing whitespace removed.
RECURSIVE LStrip(_)
LStrip(s) ==
    IF s # <<>> /\ Head(s) \in Whitespace THEN LStrip(Tail(s)) ELSE s

RECURSIVE RStrip(_)
RStrip(s) ==
    IF s # <<>> /\ s[Len(s)] \in Whitespace
    THEN RStrip(SubSeq(s, 1, Len(s) - 1))
    ELSE s

Strip(s) == RStrip(LStrip(s))

\* Does s start with the separator ' - ' at position i ?
SepAt(s, i) ==
    /\ i + Len(Sep) - 1 <= Len(s)
    /\ SubSeq(s, i, i + Len(Sep) - 1) = Sep

\* s.split(' - '): cut at each occurrence, scanning left to right.
RECURSIVE Split(_)
Split(s) ==
    LET hits == {i \in 1..Len(s) : SepAt(s, i)}
    IN  IF hits = {} THEN <<s>>
        ELSE LET i == CHOOSE k \in hits : \A j \in hits : k <= j
             IN  <<SubSeq(s, 1, i - 1)>> \o Split(SubSeq(s, i + Len(Sep), Len(s)))

\* [part.strip() for part in parts]
StripAll(parts) == [k \in 1..Len(parts) |-> Strip(parts[k])]

\* parse_hierarchy(group_name) = (hierarchy_levels, leaf_name)
parse_hierarchy(group_name) ==
    LET parts == StripAll(Split(group_name))
    IN  IF Len(Split(group_name)) > 1
        THEN [hierarchy |-> SubSeq(parts, 1, Len(parts) - 1),
              leaf_name |-> parts[Len(parts)]]
        ELSE [hierarchy |-> <<>>, leaf_name |-> group_name]

(***************************************************************************)
(* Time axis.  An instant is the number of minutes since 2000-01-01 00:00. *)
(***************************************************************************)
Digits == <<"0", "1", "2", "3", "4", "5", "6", "7", "8", "9">>

\* int() of one decimal digit
DigitValue(c) == (CHOOSE k \in 1..10 : Digits[k] = c) - 1

\* int(text) for a two-digit text
ParseInt2(t) == 10 * DigitValue(t[1]) + DigitValue(t[2])

MinutesPerHour == 60
MinutesPerDay == 24 * MinutesPerHour

\* datetime(2000, 1, 1, hour, minute)
Instant(hour, minute) == hour * MinutesPerHour + minute

\* current.strftime("%H%M")
Strftime(current) ==
    LET h == (current % MinutesPerDay) \div MinutesPerHour
        m == current % MinutesPerHour
    IN  <<Digits[(h \div 10) + 1], Digits[(h % 10) + 1],
          Digits[(m \div 10) + 1], Digits[(m % 10) + 1]>>

T2400 == <<"2", "4", "0", "0">>
T0000 == <<"0", "0", "0", "0">>

StartInstant(start_time) ==
    Instant(ParseInt2(SubSeq(start_time, 1, 2)), ParseInt2(SubSeq(start_time, 3, 4)))

\* EndInstant without the overnight roll-over (end at or before start).
EndInstantSameDay(start_time, end_time) ==
    LET end_dt == IF end_time = T2400
                  THEN Instant(23, 59)
                  ELSE Instant(ParseInt2(SubSeq(end_time, 1, 2)),
                               ParseInt2(SubSeq(end_time, 3, 4)))
    IN  IF end_time = T2400 THEN end_dt + MinutesPerDay ELSE end_dt

\* end_dt, after the "2400" special case and the overnight roll-over
EndInstant(start_time, end_time) ==
    LET start_dt == StartInstant(start_time)
        end_dt == IF end_time = T2400
                  THEN Instant(23, 59)
                  ELSE Instant(ParseInt2(SubSeq(end_time, 1, 2)),
                               ParseInt2(SubSeq(end_time, 3, 4)))
    IN  IF end_dt <= start_dt \/ end_time = T2400
        THEN end_dt + MinutesPerDay
        ELSE end_dt

\* SlotLabel rewriting midnight at the start instant too (>= for >).
SlotLabelFromStart(current, start_dt) ==
    IF Strftime(current) = T0000 /\ current >= start_dt
    THEN T2400
    ELSE Strftime(current)

\* The label of one instant of the loop.
SlotLabel(current, start_dt) ==
    IF Strftime(current) = T0000 /\ current > start_dt
    THEN T2400
    ELSE Strftime(current)

\* The while loop: slots from `current` on.
RECURSIVE SlotsFrom(_, _, _, _)
SlotsFrom(current, start_dt, end_dt, interval_minutes) ==
    IF current <= end_dt
    THEN <<SlotLabel(current, start_dt)>>
         \o SlotsFrom(current + interval_minutes, start_dt, end_dt, interval_minutes)
    ELSE <<>>

generate_time_slots(start_time, end_time, interval_minutes) ==
    SlotsFrom(StartInstant(start_time), StartInstant(start_time),
              EndInstant(start_time, end_time), interval_minutes)

(***************************************************************************)
(* Group store.  `groups` is the insertion-ordered dict of the builder: a  *)
(* sequence of entries, one per registered name, in insertion order.       *)
(* A dict of activities is a function from time-slot texts to texts.       *)
(* An optional argument is << >> for None and << v >> for the value v.     *)
(***************************************************************************)
Range(seq) == {seq[k] : k \in 1..Len(seq)}

EmptyDict == [k \in {} |-> <<>>]

\* d[key] = value
DictSet(d, key, value) ==
    [k \in (DOMAIN d) \cup {key} |-> IF k = key THEN value ELSE d[k]]

\* d.get(key, '')
DictGet(d, key) == IF key \in DOMAIN d THEN d[key] ELSE <<>>

\* group_name in self.groups
HasGroup(gs, group_name) == \E k \in 1..Len(gs) : gs[k].name = group_name

\* position of self.groups[group_name] in insertion order
GroupIndex(gs, group_name) == CHOOSE k \in 1..Len(gs) : gs[k].name = group_name

\* activities or {}
ActivitiesOrEmpty(activities) ==
    IF activities = <<>> \/ DOMAIN activities[1] = {} THEN EmptyDict ELSE activities[1]

\* locations or []
LocationsOrEmpty(locations) ==
    IF locations = <<>> \/ locations[1] = <<>> THEN <<>> ELSE locations[1]

\* The entry add_group stores for a new name.
NewGroup(group_name, activities, locations) ==
    [name       |-> group_name,
     hierarchy  |-> parse_hierarchy(group_name).hierarchy,
     leaf_name  |-> parse_hierarchy(group_name).leaf_name,
     activities |-> ActivitiesOrEmpty(activities),
     locations  |-> LocationsOrEmpty(locations)]

\* add_group without the membership test: a registered name is overwritten.
GroupsAfterAddGroupOverwrite(gs, group_name, activities, locations) ==
    IF ~HasGroup(gs, group_name)
    THEN Append(gs, NewGroup(group_name, activities, locations))
    ELSE [gs EXCEPT ![GroupIndex(gs, group_name)] =
                        NewGroup(group_name, activities, locations)]

\* self.groups after add_group(group_name, activities, locations)
GroupsAfterAddGroup(gs, group_name, activities, locations) ==
    IF ~HasGroup(gs, group_name)
    THEN Append(gs, NewGroup(group_name, activities, locations))
    ELSE gs

\* The locations list after add_activity's conditional append.
LocationsAfterAdd(locations, location) ==
    IF location # <<>> /\ location \notin Range(locations)
    THEN Append(locations, location)
    ELSE locations

\* self.groups after add_activity(group_name, time_slot, activity, location)
GroupsAfterAddActivity(gs, group_name, time_slot, activity, location) ==
    LET gs1 == IF ~HasGroup(gs, group_name)
               THEN GroupsAfterAddGroup(gs, group_name, <<>>, <<>>)
               ELSE gs
        i   == GroupIndex(gs1, group_name)
    IN  [gs1 EXCEPT
            ![i].activities = DictSet(@, time_slot, activity),
            ![i].locations  = LocationsAfterAdd(@, location)]

(***************************************************************************)
(* Table building.                                                         *)
(***************************************************************************)
\* The hierarchy key of one group entry.
KeyOf(group_data) ==
    IF group_data.hierarchy = <<>>
    THEN <<group_data.name>>
    ELSE Append(group_data.hierarchy, group_data.leaf_name)

\* The dict hierarchy_groups: a later entry with the same key replaces the
\* earlier one.
HierarchyGroups(gs) ==
    [key \in {KeyOf(gs[k]) : k \in 1..Len(gs)} |->
        LET last == CHOOSE k \in 1..Len(gs) :
                        /\ KeyOf(gs[k]) = key
                        /\ \A j \in 1..Len(gs) : KeyOf(gs[j]) = key => j <= k
        IN  gs[last]]

\* sorted(...) on a set of distinct keys: the keys in ascending order.
RECURSIVE SortedKeys(_)
SortedKeys(keys) ==
    IF keys = {} THEN <<>>
    ELSE LET least == CHOOSE a \in keys : \A b \in keys \ {a} : TupleLess(a, b)
         IN  <<least>> \o SortedKeys(keys \ {least})

\* ', '.join(locations)
RECURSIVE JoinLocations(_)
JoinLocations(locations) ==
    IF locations = <<>> THEN <<>>
    ELSE IF Len(locations) = 1 THEN locations[1]
    ELSE locations[1] \o <<",", " ">> \o JoinLocations(Tail(locations))

\* The three prefix cells of a row, before the location annotation.
RowPrefix(group_key, leaf, current_top_level, current_second_level) ==
    IF Len(group_key) = 1 THEN
        <<group_key[1], <<>>, <<>>>>
    ELSE IF Len(group_key) = 2 THEN
        <<IF <<group_key[1]>> # current_top_level THEN group_key[1] ELSE <<>>,
          group_key[2],
          <<>>>>
    ELSE IF Len(group_key) = 3 THEN
        <<IF <<group_key[1]>> # current_top_level THEN group_key[1] ELSE <<>>,
          IF <<group_key[2]>> # current_second_level THEN group_key[2] ELSE <<>>,
          group_key[3]>>
    ELSE
        <<<<>>, <<>>, leaf>>

\* current_top_level after the row of group_key
NextTop(group_key, current_top_level) ==
    IF Len(group_key) \in {1, 2, 3} THEN <<group_key[1]>> ELSE current_top_level

\* NextSecond forgetting the second-level label on a row deeper than 3.
NextSecondResetDeep(group_key, current_second_level) ==
    IF Len(group_key) \in {2, 3} THEN <<group_key[2]>> ELSE <<>>

\* current_second_level after the row of group_key
NextSecond(group_key, current_second_level) ==
    IF Len(group_key) = 1 THEN <<>>
    ELSE IF Len(group_key) \in {2, 3} THEN <<group_key[2]>>
    ELSE current_second_level

\* The third cell with the location annotation merged in.
WithLocations(cell, locations) ==
    IF locations # <<>>
    THEN IF cell # <<>>
         THEN cell \o <<" ", "(">> \o JoinLocations(locations) \o <<")">>
         ELSE <<"(">> \o JoinLocations(locations) \o <<")">>
    ELSE cell

\* ActivityCells skipping the slots the group has no activity for.
ActivityCellsPresentOnly(activities, slots) ==
    LET present == SelectSeq(slots, LAMBDA t : t \in DOMAIN activities)
    IN  [k \in 1..Len(present) |-> activities[present[k]]]

\* One activity cell per time slot.
ActivityCells(activities, slots) ==
    [k \in 1..Len(slots) |-> DictGet(activities, slots[k])]

\* One finished data row.
DataRow(group_key, group_data, current_top_level, current_second_level, slots) ==
    LET row == RowPrefix(group_key, group_data.leaf_name,
                         current_top_level, current_second_level)
    IN  <<row[1], row[2], WithLocations(row[3], group_data.locations)>>
        \o ActivityCells(group_data.activities, slots)

\* The loop over sorted_groups, carrying the two running labels.
RECURSIVE DataRows(_, _, _, _, _)
DataRows(keys, hierarchy_groups, current_top_level, current_second_level, slots) ==
    IF keys = <<>> THEN <<>>
    ELSE LET group_key == Head(keys)
         IN  <<DataRow(group_key, hierarchy_groups[group_key],
                       current_top_level, current_second_level, slots)>>
             \o DataRows(Tail(keys), hierarchy_groups,
                         NextTop(group_key, current_top_level),
                         NextSecond(group_key, current_second_level), slots)

HeaderRow(slots) == <<<<>>, <<>>, <<>>>> \o slots

EmptyRow(slots) == <<<<>>, <<>>, <<>>>> \o [k \in 1..Len(slots) |-> <<>>]

\* The table of a builder whose time period is set.
ScheduleTable(slots, gs) ==
    <<HeaderRow(slots), EmptyRow(slots)>>
    \o DataRows(SortedKeys(DOMAIN HierarchyGroups(gs)), HierarchyGroups(gs),
                <<>>, <<>>, slots)

\* build_schedule_structure(): the table, or the ValueError.
build_schedule_structure(slots, gs) ==
    IF slots = <<>>
    THEN [status |-> "ValueError", value |-> <<>>]
    ELSE [status |-> "ok", value |-> ScheduleTable(slots, gs)]

\* export_to_dict(): the bundle, or the ValueError of the build.
export_to_dict(slots, gs) ==
    IF build_schedule_structure(slots, gs).status = "ok"
    THEN [status |-> "ok",
          value  |-> [time_slots |-> slots, groups |-> gs,
                      schedule |-> build_schedule_structure(slots, gs).value]]
    ELSE build_schedule_structure(slots, gs)

(***************************************************************************)
(* State of one ScheduleBuilder and of its caller.                         *)
(*   time_slots, groups : the builder's fields                             *)
(*   call    : the last call made: the operation and, for add_group,       *)
(*             whether the name was registered before the call and whether *)
(*             an activities or locations argument was given               *)
(*   result  : what the last call returned or raised                       *)
(*   period  : << >> until set_time_period has returned, then the          *)
(*             arguments of its latest call, wrapped                       *)
(*   written : for each (group name, time slot) written so far, the text   *)
(*             written last                                                *)
(***************************************************************************)
VARIABLES time_slots, groups, call, result, period, written

vars == <<time_slots, groups, call, result, period, written>>

ReturnsNone == [status |-> "ok", value |-> <<>>]

Init ==
    /\ time_slots = <<>>
    /\ groups = <<>>
    /\ call = [op |-> "__init__", existed |-> FALSE, given |-> FALSE]
    /\ result = ReturnsNone
    /\ period = <<>>
    /\ written = EmptyDict

\* The texts a new group is created with, recorded as written.
WrittenAfterCreate(w, group_name, activities) ==
    [k \in (DOMAIN w) \cup {<<group_name, t>> : t \in DOMAIN activities} |->
        IF k[1] = group_name /\ k[2] \in DOMAIN activities
        THEN activities[k[2]]
        ELSE w[k]]

add_group(group_name, activities, locations) ==
    /\ groups' = GroupsAfterAddGroup(groups, group_name, activities, locations)
    /\ written' = IF HasGroup(groups, group_name)
                  THEN written
                  ELSE WrittenAfterCreate(written, group_name,
                                          ActivitiesOrEmpty(activities))
    /\ call' = [op |-> "add_group", existed |-> HasGroup(groups, group_name),
                given |-> activities # <<>> \/ locations # <<>>]
    /\ result' = ReturnsNone
    /\ UNCHANGED <<time_slots, period>>

set_time_period(start_time, end_time, interval_minutes) ==
    /\ time_slots' = generate_time_slots(start_time, end_time, interval_minutes)
    /\ period' = <<[start |-> start_time, end |-> end_time,
                    interval |-> interval_minutes]>>
    /\ call' = [op |-> "set_time_period", existed |-> FALSE, given |-> FALSE]
    /\ result' = ReturnsNone
    /\ UNCHANGED <<groups, written>>

add_activity(group_name, time_slot, activity, location) ==
    /\ groups' = GroupsAfterAddActivity(groups, group_name, time_slot, activity,
                                        location)
    /\ written' = DictSet(written, <<group_name, time_slot>>, activity)
    /\ call' = [op |-> "add_activity", existed |-> FALSE, given |-> FALSE]
    /\ result' = ReturnsNone
    /\ UNCHANGED <<time_slots, period>>

BuildScheduleStructure ==
    /\ result' = build_schedule_structure(time_slots, groups)
    /\ call' = [op |-> "build_schedule_structure", existed |-> FALSE, given |-> FALSE]
    /\ UNCHANGED <<time_slots, groups, period, written>>

ExportToDict ==
    /\ result' = export_to_dict(time_slots, groups)
    /\ call' = [op |-> "export_to_dict", existed |-> FALSE, given |-> FALSE]
    /\ UNCHANGED <<time_slots, groups, period, written>>

(***************************************************************************)
(* Inputs.  Times are well-formed "HHMM" texts (hour 00-23, minute 00-59,  *)
(* or the end time "2400") and intervals are positive, the inputs on which *)
(* generate_time_slots returns.                                            *)
(***************************************************************************)
Txt(c) == <<c>>

\* Group names of depth 1, 2, 3 and 4; NameAB2 has a space and a tab between
\* the separator and its leaf.
NameA    == <<"A">>
NameAB   == <<"A">> \o Sep \o <<"B">>
NameAB2  == <<"A">> \o Sep \o <<" ", "\t", "B">>
NameABC  == <<"A">> \o Sep \o <<"B">> \o Sep \o <<"C">>
NameABD  == <<"A">> \o Sep \o <<"B">> \o Sep \o <<"D">>
NameBBC  == <<"B">> \o Sep \o <<"B">> \o Sep \o <<"C">>
NameABCD == <<"A">> \o Sep \o <<"B">> \o Sep \o <<"C">> \o Sep \o <<"D">>

T2300 == <<"2", "3", "0", "0">>
T0100 == <<"0", "1", "0", "0">>
T0530 == <<"0", "5", "3", "0">>

\* The store stays within the bound of the model.
Within(gs, maxGroups) == Len(gs) <= maxGroups

(***************************************************************************)
(* Spec: the builder driven with names that collide after parsing, two     *)
(* time periods, overwritten activities and repeated locations.            *)
(***************************************************************************)
GroupNames == {NameA, NameAB, NameAB2}

\* (start, end, interval) triples: "2400" is on the first axis only
Periods == {<<T2300, T0100, 60>>, <<T2300, T2400, 720>>}

SlotArgs == {T2400}
ActivityTexts == {Txt("x"), Txt("y")}
LocationArgs == {<<>>, Txt("L")}

\* activities / locations arguments of add_group (<< >> is None)
GroupActivityArgs == {<<>>, <<DictSet(EmptyDict, T2400, Txt("y"))>>}
GroupLocationArgs == {<<>>, <<<<Txt("L"), Txt("L")>>>>, <<<<<<>>>>>>}

Next ==
    \/ \E n \in GroupNames, a \in GroupActivityArgs, l \in GroupLocationArgs :
          add_group(n, a, l) /\ Within(groups', MaxGroups)
    \/ \E p \in Periods : set_time_period(p[1], p[2], p[3])
    \/ \E n \in GroupNames, t \in SlotArgs, a \in ActivityTexts, l \in LocationArgs :
          add_activity(n, t, a, l) /\ Within(groups', MaxGroups)
    \/ BuildScheduleStructure
    \/ ExportToDict

Spec == Init /\ [][Next]_vars

(***************************************************************************)
(* SpecSpan: the builder driven with names of every depth, for the rows    *)
(* of the table and their collapsed parent labels.                         *)
(***************************************************************************)
SpanNames == {NameA, NameAB, NameABC, NameABD, NameBBC, NameABCD}
SpanLocationArgs == {<<>>, <<<<Txt("L")>>>>}
SpanActivityNames == {NameABD}
SpanPeriods == {<<T2300, T0100, 60>>}

NextSpan ==
    \/ \E n \in SpanNames, l \in SpanLocationArgs :
          add_group(n, <<>>, l) /\ Within(groups', MaxSpanGroups)
    \/ \E p \in SpanPeriods : set_time_period(p[1], p[2], p[3])
    \/ \E n \in SpanActivityNames :
          add_activity(n, T2400, Txt("x"), <<>>) /\ Within(groups', MaxSpanGroups)
    \/ BuildScheduleStructure
    \/ ExportToDict

SpecSpan == Init /\ [][NextSpan]_vars

(***************************************************************************)
(* SpecAxis: set_time_period over a grid of start times, end times and     *)
(* intervals, for generate_time_slots.                                     *)
(***************************************************************************)
T1200 == <<"1", "2", "0", "0">>
T2330 == <<"2", "3", "3", "0">>
T0630 == <<"0", "6", "3", "0">>
T2359 == <<"2", "3", "5", "9">>

AxisStarts == {T0000, T0530, T1200, T2300, T2330}
AxisEnds == {T0000, T0100, T0630, T1200, T2359, T2400}
AxisIntervals == {30, 45, 60, 720, 1440}

NextAxis ==
    \/ \E s \in AxisStarts, e \in AxisEnds, i \in AxisIntervals :
          set_time_period(s, e, i)
    \/ BuildScheduleStructure

SpecAxis == Init /\ [][NextAxis]_vars

(***************************************************************************)
(* Properties.                                                             *)
(***************************************************************************)
\* The last call was a build that returned a table.
Built == call.op = "build_schedule_structure" /\ result.status = "ok"

\* The keys of the data rows, in row order.
RowKeys == SortedKeys({KeyOf(groups[k]) : k \in 1..Len(groups)})

\* The row of the returned table that carries the hierarchy key `key`.
RowOfKey(key) ==
    result.value[2 + (CHOOSE k \in 1..Len(RowKeys) : RowKeys[k] = key)]

\* Does the text `cell` begin with the text `label` ?
BeginsWith(cell, label) ==
    Len(cell) >= Len(label) /\ SubSeq(cell, 1, Len(label)) = label

\* The instant of the k-th slot of the configured period.
SlotInstant(k) == StartInstant(period[1].start) + (k - 1) * period[1].interval

\* Is `label` the plain HHMM clock time of `instant` ?
IsClockLabel(label, instant) ==
    /\ Len(label) = 4
    /\ ParseInt2(SubSeq(label, 1, 2)) * MinutesPerHour
         + ParseInt2(SubSeq(label, 3, 4)) = instant % MinutesPerDay

\* C1: with end time "2400" the axis covers the start up to 24:00 of the
\* start day and no further: it has one slot per interval step within that
\* span, and ends with "2400" when the interval divides the span.
C1_EndOfDay ==
    (period # <<>> /\ period[1].end = T2400) =>
        LET span == MinutesPerDay - StartInstant(period[1].start)
        IN  /\ Len(time_slots) = (span \div period[1].interval) + 1
            /\ (span % period[1].interval = 0 =>
                    time_slots[Len(time_slots)] = T2400)

\* C2: a built table has exactly one data row per registered group, that is
\* 2 + |groups| rows.
C2_OneRowPerGroup ==
    Built => Len(result.value) = 2 + Len(groups)

\* C3: in every built table each row has 3 + len(time_slots) cells, row 0 is
\* three empty cells followed by the time slots in axis order, and row 1
\* holds only empty texts.
C3_RowShape ==
    Built =>
        /\ \A r \in 1..Len(result.value) :
              Len(result.value[r]) = 3 + Len(time_slots)
        /\ Len(result.value) >= 2
        /\ SubSeq(result.value[1], 1, 3) = <<<<>>, <<>>, <<>>>>
        /\ SubSeq(result.value[1], 4, Len(result.value[1])) = time_slots
        /\ \A c \in 1..Len(result.value[2]) : result.value[2][c] = <<>>

C3_Witness ==
    /\ Built
    /\ Len(result.value) = 5
    /\ \E k \in 1..Len(groups) :
          Len(KeyOf(groups[k])) = 4 /\ groups[k].locations # <<>>
    /\ \E k \in 1..Len(groups) :
          Len(KeyOf(groups[k])) = 3 /\ groups[k].activities # EmptyDict
    /\ \E k \in 1..Len(groups) : Len(KeyOf(groups[k])) = 1

\* C4: build_schedule_structure and export_to_dict raise exactly when no
\* set_time_period call has returned, and a raising call leaves groups and
\* time_slots unchanged.
C4_PreconditionOnly ==
    [][call'.op \in {"build_schedule_structure", "export_to_dict"} =>
          /\ (result'.status = "ValueError") <=> (period = <<>>)
          /\ (result'.status = "ok") <=> (period # <<>>)
          /\ groups' = groups
          /\ time_slots' = time_slots]_vars

C4_Witness ==
    /\ call.op = "export_to_dict"
    /\ result.status = "ValueError"
    /\ Len(groups) = 2
    /\ \E k \in 1..Len(groups) : groups[k].activities # EmptyDict

\* C5: an add_group call changes the store only by appending an entry for a
\* name that was not registered; on a registered name it changes nothing,
\* whatever its arguments.
C5_AddGroupNoOp ==
    [][call'.op = "add_group" =>
          \/ groups' = groups
          \/ /\ Len(groups') = Len(groups) + 1
             /\ SubSeq(groups', 1, Len(groups)) = groups
             /\ ~HasGroup(groups, groups'[Len(groups')].name)]_vars

C5_Witness ==
    /\ call.op = "add_group" /\ call.existed /\ call.given
    /\ \E k \in 1..Len(groups) :
          /\ T2400 \in DOMAIN groups[k].activities
          /\ groups[k].activities[T2400] = Txt("x")
          /\ groups[k].locations = <<Txt("L")>>

\* C6: the first label is the start time; a later slot whose instant falls
\* on 00:00 is labelled "2400"; every other slot carries the plain HHMM
\* clock time of its instant.
C6_MidnightLabel ==
    period # <<>> =>
        /\ Len(time_slots) >= 1
        /\ time_slots[1] = period[1].start
        /\ \A k \in 1..Len(time_slots) :
              IF SlotInstant(k) % MinutesPerDay = 0 /\ k > 1
              THEN time_slots[k] = T2400
              ELSE /\ IsClockLabel(time_slots[k], SlotInstant(k))
                   /\ time_slots[k] # T2400

C6_Witness ==
    /\ period # <<>>
    /\ period[1].start = T0000
    /\ Len(time_slots) >= 3
    /\ time_slots[1] = T0000
    /\ time_slots[Len(time_slots)] = T2400

\* C7: in a built table the cell of each group under each axis slot is the
\* text written last for that group and slot, or empty if none was written,
\* and the row has no other activity cells.
C7_CellIsLastWritten ==
    Built =>
        \A g \in 1..Len(groups) :
            /\ Len(RowOfKey(KeyOf(groups[g]))) = 3 + Len(time_slots)
            /\ \A k \in 1..Len(time_slots) :
                  RowOfKey(KeyOf(groups[g]))[3 + k] =
                      DictGet(written, <<groups[g].name, time_slots[k]>>)

\* C8: every group's location list holds no duplicate and no empty text.
C8_LocationsOrderedSet ==
    \A g \in 1..Len(groups) :
        /\ <<>> \notin Range(groups[g].locations)
        /\ \A i, j \in 1..Len(groups[g].locations) :
              groups[g].locations[i] = groups[g].locations[j] => i = j

\* C9: of two depth-3 groups with the same top-level and second-level
\* labels, the row of the later one in sort order has empty columns 0 and 1
\* and its leaf label in column 2 (alone when the group has no locations).
C9_SpanCollapse ==
    Built =>
        \A i, j \in 1..Len(RowKeys) :
            (/\ i < j
             /\ Len(RowKeys[i]) = 3 /\ Len(RowKeys[j]) = 3
             /\ RowKeys[i][1] = RowKeys[j][1]
             /\ RowKeys[i][2] = RowKeys[j][2]) =>
                /\ result.value[2 + j][1] = <<>>
                /\ result.value[2 + j][2] = <<>>
                /\ BeginsWith(result.value[2 + j][3], RowKeys[j][3])
                /\ (\A g \in 1..Len(groups) :
                        KeyOf(groups[g]) = RowKeys[j] => groups[g].locations = <<>>)
                      => result.value[2 + j][3] = RowKeys[j][3]

C9_Witness ==
    /\ Built
    /\ Len(RowKeys) = 3
    /\ Len(RowKeys[1]) = 3 /\ Len(RowKeys[2]) = 4 /\ Len(RowKeys[3]) = 3
    /\ RowKeys[1][1] = RowKeys[3][1] /\ RowKeys[1][2] = RowKeys[3][2]
    /\ result.value[5][1] = <<>> /\ result.value[5][2] = <<>>

\* C10: a depth-3 row that prints its top-level label in column 0 also
\* prints its second-level label in column 1.
C10_SecondWithTop ==
    Built =>
        \A j \in 1..Len(RowKeys) :
            (Len(RowKeys[j]) = 3 /\ result.value[2 + j][1] # <<>>) =>
                result.value[2 + j][2] = RowKeys[j][2]

====
